---- MODULE Spec2Model ----
(***************************************************************************)
(* Model of app.py: the Flask e-commerce dashboard backend.                *)
(* A request is routed (Dispatch), its handler calls query_db (QueryDb),   *)
(* and the handler turns the rows, or the exception, into a response.      *)
(* The temperature handler also calls the weather archive API.             *)
(***************************************************************************)
EXTENDS Integers, Sequences, FiniteSets, TLC

\* SQL NULL as sqlite3 returns it (Python None): MIN/MAX over no rows, a
\* payment without method.  Every other column value is >= 0.
NULL == -1

\* ---------------------------------------------------------------- bounds
\* Number of requests sent during a run.
NumReqs == 2
\* Longest orders table and number of distinct order dates (data runs).
MaxOrders == 3
NumDates == 3
\* Longest payments table and number of payment method ids (data runs).
MaxPayments == 3
NumMethods == 2

\* LIMIT 10 of the most_popular_products query.
LIMIT == 10

Reqs == 1..NumReqs
\* order_date values: ISO text dates, which compare as text in calendar
\* order; a date is modelled by its day index.
Dates == 1..NumDates
MethodIds == 1..NumMethods
MethodNames == {"card", "cash"}
\* One product more than LIMIT, so that the LIMIT cuts the result.
ProductIds == 1..(LIMIT + 1)

\* ---------------------------------------------------------------- routes
INDEX == "/"
TEMPERATURE == "/api/temperature_over_time"
ORDERS == "/api/orders_over_time"
LOW_STOCK == "/api/low_stock_levels"
POPULAR == "/api/most_popular_products"
PAYMENTS == "/api/payment_method_popularity"

ApiRoutes == {TEMPERATURE, ORDERS, LOW_STOCK, POPULAR, PAYMENTS}
\* The url map built by the @app.route decorators.
RegisteredRoutes == {INDEX} \cup ApiRoutes
\* Request paths: the registered ones and two that no route matches.
Paths == RegisteredRoutes \cup {"/api/unknown", "/favicon.ico"}

VARIABLES
    dbFile,          \* CCL_ecommerce.db: "missing", "empty" (a file without schema), "ok"
    orders,          \* rows [order_id, order_date]
    products,        \* rows [product_id, product_name]
    stock_level,     \* rows [product_id, quantity]
    order_details,   \* rows [order_id, product_id, quantity_ordered]
    payments,        \* rows [payment_id, method_id]
    payment_methods, \* rows [method_id, method_name]
    pc,              \* per request: "idle", "query", "handler", "external", "done"
    path,            \* per request: the path requested
    result,          \* per request: the rows query_db returned
    raised,          \* per request: query_db left by abort(500)
    conn,            \* per request: its sqlite3 connection: "none", "open", "closed"
    queryCalls,      \* per request: calls of query_db made
    extCalls,        \* per request: the params of each requests.get issued
    extResult,       \* per request: how its requests.get ended, "none" before
    log,             \* per request: the lines it wrote to App.log
    resp             \* per request: the response [status, body] sent, status 0 before

tables == <<orders, products, stock_level, order_details, payments, payment_methods>>
reqVars == <<pc, path, result, raised, conn, queryCalls, extCalls, extResult, log, resp>>
vars == <<dbFile, tables, reqVars>>

\* ---------------------------------------------------------------- helpers
Min(a, b) == IF a <= b THEN a ELSE b

\* The elements of S as a sequence, ascending by key[x].
RECURSIVE SortByKey(_, _)
SortByKey(S, key) ==
    IF S = {} THEN <<>>
    ELSE LET x == CHOOSE x \in S : \A y \in S : key[x] <= key[y]
         IN <<x>> \o SortByKey(S \ {x}, key)

\* Sum of f[x] over the set S.
RECURSIVE SumOver(_, _)
SumOver(S, f) ==
    IF S = {} THEN 0
    ELSE LET x == CHOOSE x \in S : TRUE
         IN f[x] + SumOver(S \ {x}, f)

SumSeq(s) == SumOver(DOMAIN s, s)

\* Column c of a result: [row[c] for row in result] (c counts from 1).
Column(rows, c) == [i \in DOMAIN rows |-> rows[i][c]]

\* The order in which the store returns rows that compare equal under the
\* ORDER BY key: no secondary key is given, so either scan direction.
TieOrders == {"fwd", "rev"}

\* ORDER BY k ASC over rows kept in scan order; ties fall as `tie` says.
OrderBy(rows, k, tie) ==
    LET n == Len(rows)
        key == [i \in 1..n |-> k[i] * (n + 1) + (IF tie = "fwd" THEN i ELSE n + 1 - i)]
        perm == SortByKey(1..n, key)
    IN [j \in 1..n |-> rows[perm[j]]]

\* ---------------------------------------------------------------- queries
\* FROM left JOIN right ON left.key = right.key: the pairs <<i, j>> of row
\* numbers whose keys are equal (NULL equals nothing), in scan order.
JoinOn(lkeys, rkeys) ==
    LET pairs == {p \in (DOMAIN lkeys) \X (DOMAIN rkeys) :
                     lkeys[p[1]] # NULL /\ lkeys[p[1]] = rkeys[p[2]]}
    IN SortByKey(pairs, [p \in pairs |-> p[1] * (Len(rkeys) + 1) + p[2]])

Range(s) == {s[i] : i \in DOMAIN s}

\* SELECT MIN(order_date), MAX(order_date) FROM orders: always one row,
\* (NULL, NULL) when orders is empty.
MinMaxOrderDateQuery ==
    LET ds == {orders[i].order_date : i \in DOMAIN orders}
    IN IF ds = {} THEN << <<NULL, NULL>> >>
       ELSE << << CHOOSE d \in ds : \A e \in ds : d <= e,
                  CHOOSE d \in ds : \A e \in ds : d >= e >> >>

\* Mutant of OrdersOverTimeQuery: the ORDER BY clause left out, the groups
\* coming back in the order their dates first appear in the table.
OrdersOverTimeQueryUnordered ==
    LET ds == {orders[i].order_date : i \in DOMAIN orders}
        num_orders(d) == Cardinality({i \in DOMAIN orders :
                            orders[i].order_date = d /\ orders[i].order_id # NULL})
        first(d) == CHOOSE i \in DOMAIN orders :
                        orders[i].order_date = d /\ \A k \in 1..(i - 1) : orders[k].order_date # d
        groups == SortByKey(ds, [d \in ds |-> first(d)])
    IN [n \in DOMAIN groups |-> <<groups[n], num_orders(groups[n])>>]

\* SELECT order_date, COUNT(order_id) FROM orders GROUP BY order_date
\* ORDER BY order_date.
OrdersOverTimeQuery ==
    LET ds == {orders[i].order_date : i \in DOMAIN orders}
        num_orders(d) == Cardinality({i \in DOMAIN orders :
                            orders[i].order_date = d /\ orders[i].order_id # NULL})
        groups == SortByKey(ds, [d \in ds |-> d])
    IN [n \in DOMAIN groups |-> <<groups[n], num_orders(groups[n])>>]

\* SELECT p.product_name, s.quantity FROM stock_level s JOIN products p
\* ON s.product_id = p.product_id ORDER BY s.quantity ASC.
LowStockQuery(tie) ==
    LET j == JoinOn([i \in DOMAIN stock_level |-> stock_level[i].product_id],
                    [i \in DOMAIN products |-> products[i].product_id])
        rows == [n \in DOMAIN j |-> <<products[j[n][2]].product_name,
                                      stock_level[j[n][1]].quantity>>]
    IN OrderBy(rows, [n \in DOMAIN rows |-> rows[n][2]], tie)

\* Mutant of MostPopularProductsQuery: the LIMIT clause left out.
MostPopularProductsQueryNoLimit(tie) ==
    LET j == JoinOn([i \in DOMAIN order_details |-> order_details[i].product_id],
                    [i \in DOMAIN products |-> products[i].product_id])
        groupOf(p) == <<products[p[2]].product_id, products[p[2]].product_name>>
        groups == {groupOf(p) : p \in Range(j)}
        total_quantity(g) ==
            LET lines == {p \in Range(j) : groupOf(p) = g}
            IN SumOver(lines, [p \in lines |-> order_details[p[1]].quantity_ordered])
        gseq == SortByKey(groups, [g \in groups |-> g[1]])
        rows == [n \in DOMAIN gseq |-> <<gseq[n][1], gseq[n][2], total_quantity(gseq[n])>>]
    IN OrderBy(rows, [n \in DOMAIN rows |-> 0 - rows[n][3]], tie)

\* SELECT p.product_id, p.product_name, SUM(od.quantity_ordered) AS total_quantity
\* FROM order_details od JOIN products p ON od.product_id = p.product_id
\* GROUP BY p.product_id, p.product_name ORDER BY total_quantity DESC LIMIT 10.
MostPopularProductsQuery(tie) ==
    LET j == JoinOn([i \in DOMAIN order_details |-> order_details[i].product_id],
                    [i \in DOMAIN products |-> products[i].product_id])
        groupOf(p) == <<products[p[2]].product_id, products[p[2]].product_name>>
        groups == {groupOf(p) : p \in Range(j)}
        total_quantity(g) ==
            LET lines == {p \in Range(j) : groupOf(p) = g}
            IN SumOver(lines, [p \in lines |-> order_details[p[1]].quantity_ordered])
        gseq == SortByKey(groups, [g \in groups |-> g[1]])
        rows == [n \in DOMAIN gseq |-> <<gseq[n][1], gseq[n][2], total_quantity(gseq[n])>>]
        ordered == OrderBy(rows, [n \in DOMAIN rows |-> 0 - rows[n][3]], tie)
    IN SubSeq(ordered, 1, Min(LIMIT, Len(ordered)))

\* Mutant of PaymentMethodQuery: joined ON p.payment_id = pm.method_id.
PaymentMethodQueryWrongKey(tie) ==
    LET j == JoinOn([i \in DOMAIN payments |-> payments[i].payment_id],
                    [i \in DOMAIN payment_methods |-> payment_methods[i].method_id])
        groupOf(p) == payment_methods[p[2]].method_name
        groups == {groupOf(p) : p \in Range(j)}
        transaction_count(g) ==
            Cardinality({p \in Range(j) :
                            groupOf(p) = g /\ payments[p[1]].payment_id # NULL})
        first(g) == CHOOSE n \in DOMAIN j :
                        groupOf(j[n]) = g /\ \A m \in 1..(n - 1) : groupOf(j[m]) # g
        gseq == SortByKey(groups, [g \in groups |-> first(g)])
        rows == [n \in DOMAIN gseq |-> <<gseq[n], transaction_count(gseq[n])>>]
    IN OrderBy(rows, [n \in DOMAIN rows |-> 0 - rows[n][2]], tie)

\* SELECT pm.method_name, COUNT(p.payment_id) AS transaction_count
\* FROM payments p JOIN payment_methods pm ON p.method_id = pm.method_id
\* GROUP BY pm.method_name ORDER BY transaction_count DESC.
PaymentMethodQuery(tie) ==
    LET j == JoinOn([i \in DOMAIN payments |-> payments[i].method_id],
                    [i \in DOMAIN payment_methods |-> payment_methods[i].method_id])
        groupOf(p) == payment_methods[p[2]].method_name
        groups == {groupOf(p) : p \in Range(j)}
        transaction_count(g) ==
            Cardinality({p \in Range(j) :
                            groupOf(p) = g /\ payments[p[1]].payment_id # NULL})
        first(g) == CHOOSE n \in DOMAIN j :
                        groupOf(j[n]) = g /\ \A m \in 1..(n - 1) : groupOf(j[m]) # g
        gseq == SortByKey(groups, [g \in groups |-> first(g)])
        rows == [n \in DOMAIN gseq |-> <<gseq[n], transaction_count(gseq[n])>>]
    IN OrderBy(rows, [n \in DOMAIN rows |-> 0 - rows[n][2]], tie)

\* The fixed SQL text each API handler passes to query_db.
RunQuery(p, tie) ==
    CASE p = TEMPERATURE -> MinMaxOrderDateQuery
      [] p = ORDERS -> OrdersOverTimeQuery
      [] p = LOW_STOCK -> LowStockQuery(tie)
      [] p = POPULAR -> MostPopularProductsQuery(tie)
      [] p = PAYMENTS -> PaymentMethodQuery(tie)

\* ---------------------------------------------------------------- responses
\* abort(code, description): the HTTPException Flask hands to the error handler.
abort(code, description) == [code |-> code, description |-> description]

\* Mutant of not_found: the handler not registered, Flask's own 404 page.
not_foundDefaultPage(error) == [status |-> 404, body |-> [page |-> error.description]]

\* @app.errorhandler(404)
not_found(error) == [status |-> 404, body |-> [error |-> "Not found"]]

\* Mutant of internal_error: the body carries the error's description.
internal_errorWithDescription(error) ==
    [status |-> 500, body |-> [error |-> error.description]]

\* @app.errorhandler(500): the same body whatever the error's description.
internal_error(error) == [status |-> 500, body |-> [error |-> "Internal server error"]]

NoResponse == [status |-> 0, body |-> [pending |-> TRUE]]

\* jsonify(...) returned by a view: status 200.
Ok(body) == [status |-> 200, body |-> body]

\* ---------------------------------------------------------------- actions
\* How a call of sqlite3 can fail whatever the file holds: connect cannot
\* open the file, or execute/fetchall raises (locked, I/O error, corrupt).
StorageFaults == {"none", "connect", "execute"}

\* What requests.get(...), raise_for_status() and response.json() can do.
ExtOutcomes == {"ok", "network", "http_status", "bad_json"}

\* The router: a registered path runs its view, any other path raises
\* NotFound, which errorhandler(404) turns into the response.
Dispatch(r, p) ==
    /\ pc[r] = "idle"
    /\ path' = [path EXCEPT ![r] = p]
    /\ IF p \in ApiRoutes
       THEN pc' = [pc EXCEPT ![r] = "query"] /\ resp' = resp
       ELSE IF p = INDEX
       THEN pc' = [pc EXCEPT ![r] = "index"] /\ resp' = resp
       ELSE /\ pc' = [pc EXCEPT ![r] = "done"]
            /\ resp' = [resp EXCEPT ![r] = not_found(abort(404, "Not Found"))]
    /\ UNCHANGED <<dbFile, tables, extResult, result, raised, conn, queryCalls, extCalls, log>>

\* index(): render_template('dashboard.html').
index(r) ==
    /\ pc[r] = "index"
    /\ pc' = [pc EXCEPT ![r] = "done"]
    /\ resp' = [resp EXCEPT ![r] = Ok([page |-> "dashboard.html"])]
    /\ UNCHANGED <<dbFile, tables, extResult, path, result, raised, conn, queryCalls, extCalls, log>>

\* query_db(query): sqlite3.connect creates the file when it is missing;
\* the with block commits or rolls back and leaves the connection open;
\* sqlite3.Error is logged and turned into abort(500).
QueryDb(r) ==
    /\ pc[r] = "query"
    /\ \E fault \in StorageFaults, tie \in TieOrders :
         LET opened == fault # "connect"
             file == IF opened /\ dbFile = "missing" THEN "empty" ELSE dbFile
             fails == fault # "none" \/ file # "ok"
         IN /\ dbFile' = file
            /\ conn' = [conn EXCEPT ![r] = IF opened THEN "open" ELSE "none"]
            /\ raised' = [raised EXCEPT ![r] = fails]
            /\ result' = [result EXCEPT ![r] =
                            IF fails THEN <<>> ELSE RunQuery(path[r], tie)]
            /\ log' = [log EXCEPT ![r] =
                            IF fails THEN Append(@, "Database error") ELSE @]
    /\ queryCalls' = [queryCalls EXCEPT ![r] = @ + 1]
    /\ pc' = [pc EXCEPT ![r] = "handler"]
    /\ UNCHANGED <<tables, path, extCalls, extResult, resp>>

\* A connection nothing refers to any more is closed when the interpreter
\* collects it; query_db itself never calls close().
Finalize(r) ==
    /\ conn[r] = "open"
    /\ pc[r] # "query"
    /\ conn' = [conn EXCEPT ![r] = "closed"]
    /\ UNCHANGED <<dbFile, tables, extResult, pc, path, result, raised, queryCalls, extCalls, log, resp>>

\* except Exception as e: logging.error(msg, e); abort(500, description=...);
\* the abort reaches errorhandler(500).
Fail(r, msg, description) ==
    /\ log' = [log EXCEPT ![r] = Append(@, msg)]
    /\ resp' = [resp EXCEPT ![r] = internal_error(abort(500, description))]
    /\ pc' = [pc EXCEPT ![r] = "done"]

\* return jsonify(body).
Return(r, body) ==
    /\ log' = log
    /\ resp' = [resp EXCEPT ![r] = Ok(body)]
    /\ pc' = [pc EXCEPT ![r] = "done"]

orders_over_time(r) ==
    /\ pc[r] = "handler" /\ path[r] = ORDERS
    /\ IF raised[r]
       THEN Fail(r, "Error fetching orders over time", "Error fetching orders over time")
       ELSE Return(r, [dates |-> Column(result[r], 1), counts |-> Column(result[r], 2)])
    /\ UNCHANGED <<dbFile, tables, extResult, path, result, raised, conn, queryCalls, extCalls>>

low_stock_levels(r) ==
    /\ pc[r] = "handler" /\ path[r] = LOW_STOCK
    /\ IF raised[r]
       THEN Fail(r, "Error fetching low stock levels", "Error fetching low stock levels")
       ELSE Return(r, [products |-> Column(result[r], 1),
                       quantities |-> Column(result[r], 2)])
    /\ UNCHANGED <<dbFile, tables, extResult, path, result, raised, conn, queryCalls, extCalls>>

most_popular_products(r) ==
    /\ pc[r] = "handler" /\ path[r] = POPULAR
    /\ IF raised[r]
       THEN Fail(r, "Error fetching most popular products",
                    "Error fetching most popular products")
       ELSE Return(r, [product_ids |-> Column(result[r], 1),
                       product_names |-> Column(result[r], 2),
                       totals |-> Column(result[r], 3)])
    /\ UNCHANGED <<dbFile, tables, extResult, path, result, raised, conn, queryCalls, extCalls>>

payment_method_popularity(r) ==
    /\ pc[r] = "handler" /\ path[r] = PAYMENTS
    /\ IF raised[r]
       THEN Fail(r, "Error fetching payment method popularity",
                    "Error fetching payment method popularity")
       ELSE Return(r, [methods |-> Column(result[r], 1), counts |-> Column(result[r], 2)])
    /\ UNCHANGED <<dbFile, tables, extResult, path, result, raised, conn, queryCalls, extCalls>>

\* Mutant of temperature_over_time: the failure of query_db swallowed, the
\* GET issued whatever query_db did.
temperature_over_timeUnchecked(r) ==
    /\ pc[r] = "handler" /\ path[r] = TEMPERATURE
    /\ extCalls' = [extCalls EXCEPT ![r] =
           Append(@, IF raised[r] THEN [start_date |-> NULL, end_date |-> NULL]
                     ELSE [start_date |-> result[r][1][1], end_date |-> result[r][1][2]])]
    /\ pc' = [pc EXCEPT ![r] = "external"]
    /\ UNCHANGED <<log, resp>>
    /\ UNCHANGED <<dbFile, tables, extResult, path, result, raised, conn, queryCalls>>

\* temperature_over_time() from the return of query_db to requests.get:
\* start_date, end_date = result[0], then the GET is issued.  requests
\* leaves a param whose value is None out of the query string.
temperature_over_time(r) ==
    /\ pc[r] = "handler" /\ path[r] = TEMPERATURE
    /\ IF raised[r]
       THEN /\ Fail(r, "Error in /api/temperature_over_time",
                       "Error fetching temperature data.")
            /\ extCalls' = extCalls
       ELSE /\ extCalls' = [extCalls EXCEPT ![r] =
                   Append(@, [start_date |-> result[r][1][1],
                              end_date |-> result[r][1][2]])]
            /\ pc' = [pc EXCEPT ![r] = "external"]
            /\ UNCHANGED <<log, resp>>
    /\ UNCHANGED <<dbFile, tables, extResult, path, result, raised, conn, queryCalls>>

\* temperature_over_time() from the outcome of requests.get to the response:
\* a ConnectionError, raise_for_status() or response.json() raising all end
\* in the except clause; otherwise the API's JSON is passed through.
weather_response(r) ==
    /\ pc[r] = "external"
    /\ \E outcome \in ExtOutcomes :
         /\ extResult' = [extResult EXCEPT ![r] = outcome]
         /\ IF outcome = "ok"
            THEN Return(r, [daily |-> extCalls[r][Len(extCalls[r])]])
            ELSE Fail(r, "Error in /api/temperature_over_time",
                         "Error fetching temperature data.")
    /\ UNCHANGED <<dbFile, tables, path, result, raised, conn, queryCalls, extCalls>>

\* One step of request r.
Step(r) ==
    \/ QueryDb(r)
    \/ Finalize(r)
    \/ index(r)
    \/ orders_over_time(r)
    \/ low_stock_levels(r)
    \/ most_popular_products(r)
    \/ payment_method_popularity(r)
    \/ temperature_over_time(r)
    \/ weather_response(r)

\* ---------------------------------------------------------------- initial states
ReqInit ==
    /\ pc = [r \in Reqs |-> "idle"]
    /\ path = [r \in Reqs |-> INDEX]
    /\ result = [r \in Reqs |-> <<>>]
    /\ raised = [r \in Reqs |-> FALSE]
    /\ conn = [r \in Reqs |-> "none"]
    /\ queryCalls = [r \in Reqs |-> 0]
    /\ extCalls = [r \in Reqs |-> <<>>]
    /\ extResult = [r \in Reqs |-> "none"]
    /\ log = [r \in Reqs |-> <<>>]
    /\ resp = [r \in Reqs |-> NoResponse]

\* Rows of a table built from the column values of a key-less listing.
OrdersOf(ds) == [i \in DOMAIN ds |-> [order_id |-> i, order_date |-> ds[i]]]
PaymentsOf(ms) == [i \in DOMAIN ms |-> [payment_id |-> i, method_id |-> ms[i]]]
ProductName(p) == <<"product", p>>
ProductsOf(S) ==
    LET ids == SortByKey(S, [p \in S |-> p])
    IN [i \in DOMAIN ids |-> [product_id |-> ids[i], product_name |-> ProductName(ids[i])]]
\* One order line per quantity of lines[p], for every product p.
OrderDetailsOf(lines) ==
    LET keys == {<<p, n>> \in (DOMAIN lines) \X (1..2) : n <= Len(lines[p])}
        scan == SortByKey(keys, [k \in keys |-> 2 * k[1] + k[2]])
    IN [i \in DOMAIN scan |-> [order_id |-> scan[i][2], product_id |-> scan[i][1],
                               quantity_ordered |-> lines[scan[i][1]][scan[i][2]]]]

\* A small populated database.
SampleProducts == ProductsOf({1, 2, 3})
SampleStock ==
    << [product_id |-> 1, quantity |-> 5], [product_id |-> 2, quantity |-> 0],
       [product_id |-> 3, quantity |-> 5] >>
SampleOrderDetails == OrderDetailsOf([p \in {1, 2, 3} |-> IF p = 2 THEN <<2, 1>> ELSE <<1>>])
SamplePayments == PaymentsOf(<<1, 2, 1>>)
SamplePaymentMethods ==
    << [method_id |-> 1, method_name |-> "card"], [method_id |-> 2, method_name |-> "cash"] >>
SampleOrders == OrdersOf(<<1, 1, 2>>)

NoTables ==
    /\ orders = <<>> /\ products = <<>> /\ stock_level = <<>>
    /\ order_details = <<>> /\ payments = <<>> /\ payment_methods = <<>>

SampleTables ==
    /\ products = SampleProducts /\ stock_level = SampleStock
    /\ order_details = SampleOrderDetails
    /\ payments = SamplePayments /\ payment_methods = SamplePaymentMethods

\* The database file is missing, is a file without the schema, or holds
\* the schema with the sample rows and a populated or an empty orders table.
Init ==
    /\ ReqInit
    /\ \/ dbFile \in {"missing", "empty"} /\ NoTables
       \/ dbFile = "ok" /\ SampleTables /\ orders \in {<<>>, SampleOrders}

Next == \E r \in Reqs : (\E p \in Paths : Dispatch(r, p)) \/ Step(r)

Spec == Init /\ [][Next]_vars

\* ---------------------------------------------------------------- data runs
\* One request to one route over every table content within the bounds.
SeqsUpTo(S, n) == UNION {[1..k -> S] : k \in 0..n}

MethodsOf(name) ==
    LET ids == SortByKey(DOMAIN name, [m \in DOMAIN name |-> m])
    IN [i \in DOMAIN ids |-> [method_id |-> ids[i], method_name |-> name[ids[i]]]]

\* Every orders table of at most MaxOrders rows.
InitOrders ==
    /\ ReqInit /\ dbFile = "ok" /\ SampleTables
    /\ orders \in {OrdersOf(ds) : ds \in SeqsUpTo(Dates, MaxOrders)}

NextOrders ==
    \/ Dispatch(1, ORDERS)
    \/ QueryDb(1)
    \/ Finalize(1)
    \/ orders_over_time(1)

SpecOrders == InitOrders /\ [][NextOrders]_vars

\* Every payments table of at most MaxPayments rows, a payment's method_id
\* being NULL or any id, against every payment_methods table keyed by
\* method_id (two methods may carry the same name).
InitPayments ==
    /\ ReqInit /\ dbFile = "ok"
    /\ orders = SampleOrders /\ products = SampleProducts /\ stock_level = SampleStock
    /\ order_details = SampleOrderDetails
    /\ payments \in {PaymentsOf(ms) : ms \in SeqsUpTo(MethodIds \cup {NULL}, MaxPayments)}
    /\ payment_methods \in {MethodsOf(name) :
                               name \in UNION {[M -> MethodNames] : M \in SUBSET MethodIds}}

NextPayments ==
    \/ Dispatch(1, PAYMENTS)
    \/ QueryDb(1)
    \/ Finalize(1)
    \/ payment_method_popularity(1)

SpecPayments == InitPayments /\ [][NextPayments]_vars

\* The order lines a product can have: one line, two lines, none.
LineProfiles == {<<1>>, <<2, 1>>, <<>>}

\* LIMIT + 1 products.  Either the catalogue holds them all and at most one
\* has no order line (more groups than LIMIT, or exactly LIMIT); or the
\* catalogue holds the first three only and the lines of the other products
\* join no product.
InitPopular ==
    /\ ReqInit /\ dbFile = "ok"
    /\ orders = SampleOrders /\ stock_level = SampleStock
    /\ payments = SamplePayments /\ payment_methods = SamplePaymentMethods
    /\ \E lines \in [ProductIds -> LineProfiles] :
         /\ \/ /\ Cardinality({p \in ProductIds : lines[p] = <<>>}) <= 1
               /\ products = ProductsOf(ProductIds)
            \/ /\ \A p \in ProductIds \ {1, 2, 3} : lines[p] = <<2, 1>>
               /\ products = ProductsOf({1, 2, 3})
         /\ order_details = OrderDetailsOf(lines)

NextPopular ==
    \/ Dispatch(1, POPULAR)
    \/ QueryDb(1)
    \/ Finalize(1)
    \/ most_popular_products(1)

SpecPopular == InitPopular /\ [][NextPopular]_vars

\* ---------------------------------------------------------------- claims
Done(r) == pc[r] = "done"
GenericError == [status |-> 500, body |-> [error |-> "Internal server error"]]
ExtFailures == {"network", "http_status", "bad_json"}

\* C1: on every /api/* route, when the query made by query_db fails, an
\* error line is in the log before any response exists, nothing is sent
\* until the request ends, and it ends with status 500 and the body
\* {"error": "Internal server error"}.
C1_StorageFailureIs500 ==
    \A r \in Reqs :
        (path[r] \in ApiRoutes /\ raised[r]) =>
            /\ Len(log[r]) >= 1
            /\ log[r][1] = "Database error"
            /\ IF Done(r) THEN resp[r] = GenericError ELSE resp[r] = NoResponse

C1_Witness ==
    \E r1, r2 \in Reqs :
        /\ path[r1] = ORDERS /\ raised[r1] /\ Done(r1) /\ resp[r1].status = 500
        /\ path[r2] = TEMPERATURE /\ raised[r2] /\ Done(r2) /\ resp[r2].status = 500

\* C2: a temperature request over an empty orders table ends with status
\* 500 and never calls the weather API.
C2_EmptyOrdersNoExternalCall ==
    \A r \in Reqs :
        (path[r] = TEMPERATURE /\ pc[r] \in {"external", "done"}
            /\ ~raised[r] /\ orders = <<>>) =>
            /\ extCalls[r] = <<>>
            /\ Done(r) => resp[r].status = 500

\* C3: the counts of a payment_method_popularity response add up to the
\* number of rows of payments, whatever payments and payment_methods hold.
C3_CountsSumToAllPayments ==
    \A r \in Reqs :
        (path[r] = PAYMENTS /\ Done(r) /\ ~raised[r]) =>
            SumSeq(resp[r].body.counts) = Len(payments)

\* The payments whose method_id is that of a payment_methods row.
MatchedPayments ==
    {i \in DOMAIN payments :
        \E k \in DOMAIN payment_methods :
            payment_methods[k].method_id = payments[i].method_id}

\* C3 as amended: the counts add up to the number of payments whose
\* method_id is that of a payment_methods row (method_id being the key of
\* payment_methods); payments with a NULL or unmatched method_id count nowhere.
C3_CountsSumToMatchedPayments ==
    \A r \in Reqs :
        (path[r] = PAYMENTS /\ Done(r) /\ ~raised[r]) =>
            /\ resp[r].status = 200
            /\ Len(resp[r].body.methods) = Len(resp[r].body.counts)
            /\ SumSeq(resp[r].body.counts) = Cardinality(MatchedPayments)

C3_Witness ==
    \E r \in Reqs :
        /\ path[r] = PAYMENTS /\ Done(r) /\ resp[r].status = 200
        /\ \E i \in DOMAIN payments : payments[i].method_id = NULL
        /\ \E i \in DOMAIN payments : payments[i].method_id # NULL /\ i \notin MatchedPayments
        /\ SumSeq(resp[r].body.counts) = 1

\* C4: the connection query_db opened is closed when query_db is left, so a
\* completed request holds no open connection.
C4_ConnectionsClosed ==
    \A r \in Reqs : pc[r] \in {"handler", "external", "done"} => conn[r] # "open"

\* C5: a failure of the weather API call is logged and answered with
\* status 500 and the message "Error fetching temperature data.".
C5_TemperatureMessage ==
    \A r \in Reqs :
        (path[r] = TEMPERATURE /\ Done(r) /\ extResult[r] \in ExtFailures) =>
            /\ Len(log[r]) >= 1
            /\ resp[r] = [status |-> 500,
                          body |-> [error |-> "Error fetching temperature data."]]

\* C6: no step changes the database file or a row of a table.
C6_StoreNeverWritten == [][dbFile' = dbFile /\ tables' = tables]_vars

\* SUM(quantity_ordered) of a product over all of order_details.
QuantityOrdered(pid) ==
    LET lines == {i \in DOMAIN order_details : order_details[i].product_id = pid}
    IN SumOver(lines, [i \in lines |-> order_details[i].quantity_ordered])

Catalogue == {products[k].product_id : k \in DOMAIN products}

\* C7: a most_popular_products response holds at most 10 entries in three
\* arrays of one length; entry i is a product of the catalogue with its name
\* and the sum of its quantity_ordered; totals never increase; no product
\* left out has a greater sum than one returned.
C7_MostPopular ==
    \A r \in Reqs :
        (path[r] = POPULAR /\ Done(r) /\ ~raised[r]) =>
            LET ids == resp[r].body.product_ids
                names == resp[r].body.product_names
                totals == resp[r].body.totals
                n == Len(ids)
            IN /\ resp[r].status = 200
               /\ n <= 10 /\ Len(names) = n /\ Len(totals) = n
               /\ \A i \in 1..n :
                    /\ \E k \in DOMAIN products :
                         products[k].product_id = ids[i] /\ products[k].product_name = names[i]
                    /\ totals[i] = QuantityOrdered(ids[i])
               /\ \A i \in 1..(n - 1) : totals[i] >= totals[i + 1]
               /\ \A p \in Catalogue \ Range(ids) :
                    \A i \in 1..n : QuantityOrdered(p) <= totals[i]

C7_Witness ==
    \E r \in Reqs :
        /\ path[r] = POPULAR /\ Done(r) /\ resp[r].status = 200
        /\ Cardinality({p \in Catalogue : QuantityOrdered(p) > 0}) > 10
        /\ Len(resp[r].body.totals) = 10
        /\ resp[r].body.totals[1] > resp[r].body.totals[10]
        /\ \E p \in Catalogue \ Range(resp[r].body.product_ids) :
             QuantityOrdered(p) = resp[r].body.totals[10]

OrderDates == {orders[i].order_date : i \in DOMAIN orders}

\* C8: an orders_over_time response has one entry per distinct order_date,
\* dates strictly ascending, counts[i] the number of orders dated dates[i];
\* an empty orders table gives {"dates": [], "counts": []} with status 200.
C8_OrdersOverTime ==
    \A r \in Reqs :
        (path[r] = ORDERS /\ Done(r) /\ ~raised[r]) =>
            LET dates == resp[r].body.dates
                counts == resp[r].body.counts
            IN /\ resp[r].status = 200
               /\ Len(dates) = Len(counts)
               /\ Len(dates) = Cardinality(OrderDates)
               /\ Range(dates) = OrderDates
               /\ \A i \in 1..(Len(dates) - 1) : dates[i] < dates[i + 1]
               /\ \A i \in 1..Len(dates) :
                    counts[i] = Cardinality({k \in DOMAIN orders :
                                                orders[k].order_date = dates[i]})
               /\ orders = <<>> => resp[r] = Ok([dates |-> <<>>, counts |-> <<>>])

C8_Witness ==
    \E r \in Reqs :
        /\ path[r] = ORDERS /\ Done(r) /\ resp[r].status = 200
        /\ Len(resp[r].body.dates) = 2
        /\ resp[r].body.counts[2] = 2
        /\ orders[1].order_date > orders[2].order_date

\* C9: a request to a path no route matches is answered 404 with the body
\* {"error": "Not found"}, without a query and without a weather API call.
C9_UnregisteredIs404 ==
    \A r \in Reqs :
        (pc[r] # "idle" /\ path[r] \notin RegisteredRoutes) =>
            /\ Done(r)
            /\ resp[r] = [status |-> 404, body |-> [error |-> "Not found"]]
            /\ queryCalls[r] = 0 /\ conn[r] = "none"
            /\ extCalls[r] = <<>>
            /\ log[r] = <<>>

C9_Witness ==
    \E r \in Reqs : path[r] = "/api/unknown" /\ Done(r) /\ resp[r].status = 404

\* C10: a request calls the weather API at most once, only on the
\* temperature route and only after its one query_db call returned rows;
\* when that call failed the request ends with 500 and no weather API call.
C10_ExternalCallOrder ==
    \A r \in Reqs :
        /\ Len(extCalls[r]) <= 1
        /\ extCalls[r] # <<>> =>
             /\ path[r] = TEMPERATURE
             /\ queryCalls[r] = 1 /\ ~raised[r]
             /\ pc[r] \in {"external", "done"}
        /\ (path[r] = TEMPERATURE /\ raised[r]) =>
             /\ extCalls[r] = <<>>
             /\ Done(r) => resp[r].status = 500
        /\ pc[r] = "external" => Len(extCalls[r]) = 1

C10_Witness ==
    \E r1, r2 \in Reqs :
        /\ path[r1] = TEMPERATURE /\ Done(r1) /\ extResult[r1] = "network"
        /\ Len(extCalls[r1]) = 1 /\ resp[r1].status = 500
        /\ path[r2] = TEMPERATURE /\ Done(r2) /\ raised[r2] /\ extCalls[r2] = <<>>

====
